---- MODULE Spec2Model ----
(***************************************************************************)
(* State-machine model of attbillsplitter: AttBillSpliter.run and          *)
(* split_previous_bill (main.py) writing to the ledger tables, and the     *)
(* read-only report print_wireless_monthly_details (services.py).          *)
(*                                                                         *)
(* Money is an integer number of units; Cent units make one cent.  The     *)
(* unit is chosen so that half a cent and the n-way split of a whole       *)
(* number of cents (n up to the number of phonebook lines) are integers,   *)
(* so Python's true division in the share computation is exact here.       *)
(* Labels are sequences of words; a statement block is the list of its     *)
(* line-item elements, each carrying the label of its first div, the       *)
(* amount its "Total <label> ... $X" text yields, and the amount of a      *)
(* "National Account Discount ... $X" text when the element has one.       *)
(***************************************************************************)
EXTENDS Integers, Sequences, FiniteSets, TLC

\* ------------------------------------------------------------------------
\* Bounds of the model
\* ------------------------------------------------------------------------
MaxItems == 2   \* most line-item elements in one block of a statement

\* ------------------------------------------------------------------------
\* Units and program constants
\* ------------------------------------------------------------------------
RECURSIVE Fact(_)
Fact(n) == IF n <= 1 THEN 1 ELSE n * Fact(n - 1)

\* settings.phonebook: (name, number) pairs, the account holder first
phonebook == << <<"Holder", "555-0100">>, <<"Ann", "555-0101">>, <<"Bob", "555-0102">> >>

Cent == 2 * Fact(Len(phonebook))
Dollar == 100 * Cent

w_act_m == 130 * Dollar

Abs(x) == IF x < 0 THEN -x ELSE x

\* the unique row of the single-column aggregate SUM(amount) over a row set
RECURSIVE SumAmount(_)
SumAmount(rows) ==
    IF rows = {} THEN 0
    ELSE LET r == CHOOSE x \in rows : TRUE
         IN  r.amount + SumAmount(rows \ {r})

SeqsUpTo(S, n) == UNION {[1..k -> S] : k \in 0..n}

\* ------------------------------------------------------------------------
\* Labels, canonical charge type text and slug
\* ------------------------------------------------------------------------
MonthlyCharges == <<"Monthly", "Charges">>

startswithMonthlyCharges(label) ==
    /\ Len(label) >= 2
    /\ label[1] = "Monthly"
    /\ label[2] = "Charges"

\* charge_type_text after the startswith('Monthly Charges') rewrite
charge_type_text(label) ==
    IF startswithMonthlyCharges(label) THEN MonthlyCharges ELSE label

lower ==
    [w \in {"Monthly", "Charges", "Sep", "Data", "Roaming", "Account", "Share"} |->
        CASE w = "Monthly" -> "monthly"
          [] w = "Charges" -> "charges"
          [] w = "Sep"     -> "sep"
          [] w = "Data"    -> "data"
          [] w = "Roaming" -> "roaming"
          [] w = "Account" -> "account"
          [] w = "Share"   -> "share"]

\* slugify(text): the words lower-cased (joined by hyphens)
slugify(text) == [k \in 1..Len(text) |-> lower[text[k]]]

\* ------------------------------------------------------------------------
\* The statement pages the browser shows
\* ------------------------------------------------------------------------
\* the bills of the history page: Bills[lag] is the cycle name that follows
\* 'New charges for ' in the title of the bill opened for that lag
Bills == <<"Aug 02 - Sep 01, 2016", "Jul 02 - Aug 01, 2016">>

Lags == 1..Len(Bills)

Elem(label, total, discount) ==
    [label |-> label, total |-> total, discount |-> discount]

Found(elems) == [found |-> TRUE, elems |-> elems]

\* find_elements_by_xpath raised NoSuchElementException
NotFound == [found |-> FALSE, elems |-> <<>>]

\* elements of a U-verse TV or U-verse Internet block
UverseElems ==
    {Elem(<<"Monthly", "Charges", "Sep">>, 30 * Dollar, <<>>)}

\* elements of the account holder's wireless block
HolderElems ==
    {Elem(MonthlyCharges, 200 * Dollar, <<20 * Dollar>>),
     Elem(<<"Monthly", "Charges", "Sep">>, 200 * Dollar, <<>>),
     Elem(<<"Data">>, 50 * Dollar, <<>>)}

\* elements of an additional line's wireless block
LineElems ==
    {Elem(<<"Data">>, 50 * Dollar, <<>>),
     Elem(<<"Roaming">>, 0, <<>>)}

\* the bill of lag 2 is one regular statement: U-verse TV and Internet, the
\* holder with the account's monthly charges alone, which the discounted fee
\* uses up, Ann with data charges, Bob with none
OlderBill ==
    [utv |-> Found(<<Elem(<<"Monthly", "Charges", "Sep">>, 30 * Dollar, <<>>)>>),
     uvi |-> NotFound,
     wireless |->
        <<Found(<<Elem(MonthlyCharges, 110 * Dollar, <<20 * Dollar>>)>>),
          Found(<<Elem(<<"Data">>, 50 * Dollar, <<>>)>>),
          Found(<<Elem(<<"Roaming">>, 0, <<>>)>>)>>]

\* the bill of lag 1 ranges over the statements within the bounds
UverseBlocks(lag, category) ==
    IF lag = 1
    THEN {NotFound} \cup {Found(e) : e \in SeqsUpTo(UverseElems, 1)}
    ELSE {OlderBill[category]}

WirelessBlocks(lag, line) ==
    IF lag = 1
    THEN {NotFound} \cup
         {Found(e) : e \in SeqsUpTo(IF line = 1 THEN HolderElems ELSE LineElems,
                                    MaxItems)}
    ELSE {OlderBill.wireless[line]}

\* ------------------------------------------------------------------------
\* State
\* ------------------------------------------------------------------------
VARIABLES
    User,                \* table User, rows in insertion (id) order
    ChargeCategory,      \* table ChargeCategory
    ChargeType,          \* table ChargeType
    BillingCycle,        \* table BillingCycle (names)
    Charge,              \* table Charge
    pc,                  \* position of the bill-splitting process
    error,               \* the exception that ended the last run, or "none"
    log,                 \* the messages the last step logged
    cycle_lags,          \* lags run has still to process, the current one first
    billing_cycle,       \* split_previous_bill: the cycle row created
    offset,              \* split_previous_bill: <<>> while unbound, else <<value>>
    w_act_m_disc,        \* split_previous_bill: <<>> while unbound, else <<value>>
    users,               \* split_previous_bill: numbers of the active users
    i,                   \* split_previous_bill: position in settings.phonebook
    wireless_total,      \* split_previous_bill: total computed from user charges
    page,                \* the blocks the browser gave this split, in reading order
    unverified,          \* cycles whose split ended in CalculationError
    printed,             \* output of the last print command, <<>> when there is none
    notified             \* messages of the last notify command, <<>> when there is none

db == <<User, ChargeCategory, ChargeType, BillingCycle, Charge>>
locals == <<billing_cycle, offset, w_act_m_disc, users, i, wireless_total,
            page>>
reports == <<printed, notified>>
vars == <<db, pc, error, log, cycle_lags, locals, unverified, reports>>

account_holder == [name |-> phonebook[1][1], number |-> phonebook[1][2]]

\* ------------------------------------------------------------------------
\* Ledger operations
\* ------------------------------------------------------------------------
\* User.get_or_create(name=, number=)
UserGetOrCreate(rows, name, number) ==
    IF \E k \in 1..Len(rows) : rows[k] = [name |-> name, number |-> number]
    THEN rows
    ELSE Append(rows, [name |-> name, number |-> number])

\* ChargeCategory.get_or_create(category=, text=): the row
CategoryRow(category) ==
    [category |-> category,
     text |-> CASE category = "utv" -> "U-verse TV"
                [] category = "uvi" -> "U-verse Internet"
                [] category = "wireless" -> "Wireless"]

\* ChargeType.get_or_create(type=slugify(text), text=, charge_category=): the row
TypeRow(text, category) ==
    [type |-> slugify(text), text |-> text, charge_category |-> category]

ShareType ==
    [type |-> <<"wireless", "acount", "monthly", "charges", "share">>,
     text |-> <<"Account", "Monthly", "Charges", "Share">>,
     charge_category |-> "wireless"]

NewCharge(user, charge_type, cycle, amount) ==
    [user |-> user, charge_type |-> charge_type, billing_cycle |-> cycle,
     amount |-> amount]

SameTriple(r, new) ==
    /\ r.user = new.user
    /\ r.charge_type = new.charge_type
    /\ r.billing_cycle = new.billing_cycle

\* Charge.save(): the insert is rejected with IntegrityError when a row with
\* the same (user, charge_type, billing_cycle) exists
ChargeSave(rows, new) ==
    IF \E r \in rows : SameTriple(r, new)
    THEN [Charge |-> rows, raised |-> TRUE]
    ELSE [Charge |-> rows \cup {new}, raised |-> FALSE]

\* the same block without the except clause: IntegrityError leaves the split
TrySaveUncaught(rows, new) ==
    LET r == ChargeSave(rows, new)
    IN  [Charge |-> r.Charge, raised |-> r.raised,
         error |-> IF r.raised THEN "IntegrityError" ELSE "none"]

\* try: new_charge.save()  except IntegrityError: logger.warning(...)
TrySave(rows, new) ==
    LET r == ChargeSave(rows, new)
    IN  [Charge |-> r.Charge, raised |-> r.raised, error |-> "none"]

\* the wireless Charge rows of one user in one cycle
UserWireless(rows, user, cycle) ==
    {r \in rows : /\ r.user = user
                  /\ r.billing_cycle = cycle
                  /\ r.charge_type.charge_category = "wireless"}

\* the wireless Charge rows of a cycle
CycleWireless(rows, cycle) ==
    {r \in rows : /\ r.billing_cycle = cycle
                  /\ r.charge_type.charge_category = "wireless"}

\* ------------------------------------------------------------------------
\* The loops of split_previous_bill
\* ------------------------------------------------------------------------
\* for elem in charge_elems, U-verse TV and U-verse Internet
RECURSIVE UverseLoop(_, _, _, _, _)
UverseLoop(elems, k, st, category, cycle) ==
    IF k > Len(elems) \/ st.error # "none" THEN st
    ELSE LET text == charge_type_text(elems[k].label)
             charge_total == elems[k].total
             charge_type == TypeRow(text, category)
             saved == TrySave(st.Charge,
                              NewCharge(account_holder.number, charge_type,
                                        cycle, charge_total))
         IN  UverseLoop(elems, k + 1,
                        [ChargeType |-> st.ChargeType \cup {charge_type},
                         Charge |-> saved.Charge,
                         warned |-> st.warned \/ saved.raised,
                         error |-> saved.error],
                        category, cycle)

\* for elem in charge_elems, the account holder's wireless block
RECURSIVE HolderLoop(_, _, _, _)
HolderLoop(elems, k, st, cycle) ==
    IF k > Len(elems) \/ st.error # "none" THEN st
    ELSE LET monthly == startswithMonthlyCharges(elems[k].label)
             text == charge_type_text(elems[k].label)
             disc == IF monthly /\ elems[k].discount # <<>>
                     THEN elems[k].discount
                     ELSE st.w_act_m_disc
         IN  IF monthly /\ disc = <<>>
             THEN [st EXCEPT !.offset = <<0>>, !.error = "UnboundLocalError"]
             ELSE LET off == IF monthly THEN w_act_m - disc[1] ELSE 0
                      charge_total == elems[k].total - off
                      charge_type == TypeRow(text, "wireless")
                      saved == TrySave(st.Charge,
                                       NewCharge(account_holder.number,
                                                 charge_type, cycle,
                                                 charge_total))
                  IN  HolderLoop(elems, k + 1,
                                 [ChargeType |-> st.ChargeType \cup {charge_type},
                                  Charge |-> saved.Charge,
                                  offset |-> <<off>>,
                                  w_act_m_disc |-> disc,
                                  warned |-> st.warned \/ saved.raised,
                                  error |-> saved.error],
                                 cycle)

\* for elem in charge_elems, the wireless block of an additional line
RECURSIVE LineLoop(_, _, _, _, _, _)
LineLoop(elems, k, st, user, off, cycle) ==
    IF k > Len(elems) \/ st.error # "none" THEN st
    ELSE IF off = <<>>
         THEN [st EXCEPT !.error = "UnboundLocalError"]
         ELSE LET text == charge_type_text(elems[k].label)
                  charge_total == elems[k].total - off[1]
                  charge_type == TypeRow(text, "wireless")
                  saved == TrySave(st.Charge,
                                   NewCharge(user, charge_type, cycle,
                                             charge_total))
              IN  LineLoop(elems, k + 1,
                           [ChargeType |-> st.ChargeType \cup {charge_type},
                            Charge |-> saved.Charge,
                            charge_total |-> charge_total,
                            warned |-> st.warned \/ saved.raised,
                            error |-> saved.error],
                           user, off, cycle)

\* for user in users: the share Charge, and the user's wireless total when
\* the insert went through
RECURSIVE ShareLoop(_, _, _, _)
ShareLoop(todo, st, act_m_share, cycle) ==
    IF todo = {} \/ st.error # "none" THEN st
    ELSE LET user == CHOOSE u \in todo : TRUE
             saved == TrySave(st.Charge,
                              NewCharge(user, ShareType, cycle, act_m_share))
         IN  ShareLoop(todo \ {user},
                       [Charge |-> saved.Charge,
                        wireless_total |->
                            IF saved.raised \/ saved.error # "none"
                            THEN st.wireless_total
                            ELSE st.wireless_total +
                                 SumAmount(UserWireless(saved.Charge, user, cycle)),
                        warned |-> st.warned \/ saved.raised,
                        error |-> saved.error],
                       act_m_share, cycle)

\* ------------------------------------------------------------------------
\* The sections of split_previous_bill
\* ------------------------------------------------------------------------
\* a guard that never finds the cycle
NeverProcessed(cycles, billing_cycle_name) == FALSE

\* if BillingCycle.select().where(BillingCycle.name == billing_cycle_name)
AlreadyProcessed(cycles, billing_cycle_name) == billing_cycle_name \in cycles

Warnings(warned) == IF warned THEN {"duplicate charge"} ELSE {}

\* a U-verse section that takes a block not located for a fatal error
UverseSectionStrict(block, category, cats, types, rows, cycle) ==
    IF ~block.found \/ block.elems = <<>>
    THEN [ChargeCategory |-> cats, ChargeType |-> types, Charge |-> rows,
          log |-> {}, error |-> "ParsingError"]
    ELSE LET st == UverseLoop(block.elems, 1,
                              [ChargeType |-> types, Charge |-> rows,
                               warned |-> FALSE, error |-> "none"],
                              category, cycle)
         IN  [ChargeCategory |-> cats \cup {CategoryRow(category)},
              ChargeType |-> st.ChargeType, Charge |-> st.Charge,
              log |-> Warnings(st.warned), error |-> st.error]

\* a U-verse section: NoSuchElementException is logged and the section skipped
UverseSection(block, category, cats, types, rows, cycle) ==
    IF ~block.found
    THEN [ChargeCategory |-> cats, ChargeType |-> types, Charge |-> rows,
          log |-> {"skipped"}, error |-> "none"]
    ELSE LET st == UverseLoop(block.elems, 1,
                              [ChargeType |-> types, Charge |-> rows,
                               warned |-> FALSE, error |-> "none"],
                              category, cycle)
         IN  [ChargeCategory |-> cats \cup {CategoryRow(category)},
              ChargeType |-> st.ChargeType, Charge |-> st.Charge,
              log |-> Warnings(st.warned), error |-> st.error]

\* the holder's loop entered with the discount preset to zero
HolderFoundZeroDiscount(elems, cats, types, rows, cycle) ==
    LET st == HolderLoop(elems, 1,
                         [ChargeType |-> types, Charge |-> rows,
                          offset |-> <<>>, w_act_m_disc |-> <<0>>,
                          warned |-> FALSE, error |-> "none"],
                         cycle)
    IN  [ChargeCategory |-> cats \cup {CategoryRow("wireless")},
         ChargeType |-> st.ChargeType, Charge |-> st.Charge,
         offset |-> st.offset, w_act_m_disc |-> st.w_act_m_disc,
         log |-> Warnings(st.warned), error |-> st.error]

HolderFound(elems, cats, types, rows, cycle) ==
    LET st == HolderLoop(elems, 1,
                         [ChargeType |-> types, Charge |-> rows,
                          offset |-> <<>>, w_act_m_disc |-> <<>>,
                          warned |-> FALSE, error |-> "none"],
                         cycle)
    IN  [ChargeCategory |-> cats \cup {CategoryRow("wireless")},
         ChargeType |-> st.ChargeType, Charge |-> st.Charge,
         offset |-> st.offset, w_act_m_disc |-> st.w_act_m_disc,
         log |-> Warnings(st.warned), error |-> st.error]

\* the holder's section going on with no elements when none are located
HolderSectionLenient(block, cats, types, rows, cycle) ==
    HolderFound(block.elems, cats, types, rows, cycle)

\* the account holder's wireless section
HolderSection(block, cats, types, rows, cycle) ==
    IF ~block.found
    THEN [ChargeCategory |-> cats, ChargeType |-> types, Charge |-> rows,
          offset |-> <<>>, w_act_m_disc |-> <<>>, log |-> {},
          error |-> "ParsingError"]
    ELSE HolderFound(block.elems, cats, types, rows, cycle)

\* one additional line of the phonebook: its charges, and whether it is active
LineSection(block, name, number, urows, types, rows, off, active, cycle) ==
    IF ~block.found
    THEN [User |-> urows, ChargeType |-> types, Charge |-> rows,
          users |-> active, log |-> {}, error |-> "ParsingError"]
    ELSE LET st == LineLoop(block.elems, 1,
                            [ChargeType |-> types, Charge |-> rows,
                             charge_total |-> 0, warned |-> FALSE,
                             error |-> "none"],
                            number, off, cycle)
         IN  [User |-> UserGetOrCreate(urows, name, number),
              ChargeType |-> st.ChargeType, Charge |-> st.Charge,
              users |-> IF st.error = "none" /\ st.charge_total > 0
                        THEN active \cup {number}
                        ELSE active,
              log |-> Warnings(st.warned), error |-> st.error]

\* the share computed from the undiscounted fee
ActMShareNoDiscount(disc, n) == w_act_m \div n

\* act_m_share = (self.w_act_m - w_act_m_disc) / len(users)
ActMShare(disc, n) == (w_act_m - disc) \div n

\* the share section: the shares and the wireless total of the users
ShareSection(types, rows, disc, active, cycle) ==
    IF disc = <<>>
    THEN [ChargeType |-> types, Charge |-> rows, wireless_total |-> 0,
          log |-> {}, error |-> "UnboundLocalError"]
    ELSE IF active = {}
    THEN [ChargeType |-> types, Charge |-> rows, wireless_total |-> 0,
          log |-> {}, error |-> "ZeroDivisionError"]
    ELSE LET st == ShareLoop(active,
                             [Charge |-> rows, wireless_total |-> 0,
                              warned |-> FALSE, error |-> "none"],
                             ActMShare(disc[1], Cardinality(active)), cycle)
         IN  [ChargeType |-> types \cup {ShareType},
              Charge |-> st.Charge, wireless_total |-> st.wireless_total,
              log |-> Warnings(st.warned), error |-> st.error]

\* if abs(bill_wireless_total - wireless_total) > 0.01: raise CalculationError
Reconcile(bill_total, total) ==
    IF Abs(bill_total - total) > Cent
    THEN "CalculationError"
    ELSE "none"

\* ------------------------------------------------------------------------
\* Initial state and actions of the bill-splitting process
\* ------------------------------------------------------------------------
\* the tables as create_tables_if_not_exist leaves them, no process running
Init ==
    /\ User = <<>>
    /\ ChargeCategory = {}
    /\ ChargeType = {}
    /\ BillingCycle = {}
    /\ Charge = {}
    /\ pc = "idle"
    /\ error = "none"
    /\ log = {}
    /\ cycle_lags = <<>>
    /\ billing_cycle = ""
    /\ offset = <<>>
    /\ w_act_m_disc = <<>>
    /\ users = {}
    /\ i = 0
    /\ wireless_total = 0
    /\ page = <<>>
    /\ unverified = {}
    /\ printed = <<>>
    /\ notified = <<>>

\* the locals of split_previous_bill are gone when it is left
ResetLocals ==
    /\ billing_cycle' = ""
    /\ offset' = <<>>
    /\ w_act_m_disc' = <<>>
    /\ users' = {}
    /\ i' = 0
    /\ wireless_total' = 0
    /\ page' = <<>>

\* a run that notes the exception and goes on with the next lag
RaiseAndContinue(exception) ==
    /\ pc' = "loop"
    /\ error' = exception
    /\ cycle_lags' = Tail(cycle_lags)
    /\ ResetLocals

\* an exception leaves split_previous_bill and run: the process ends
Raise(exception) ==
    /\ pc' = "idle"
    /\ error' = exception
    /\ cycle_lags' = <<>>
    /\ ResetLocals

\* split_previous_bill returns to the loop of run
Return ==
    /\ pc' = "loop"
    /\ cycle_lags' = Tail(cycle_lags)
    /\ ResetLocals
    /\ UNCHANGED error

\* the lag lists given to run: each bill of the history at most once
CycleLags == {lags \in SeqsUpTo(Lags, Len(Bills)) :
                 \A m, n \in 1..Len(lags) : lags[m] = lags[n] => m = n}

\* run_split_bill: the account holder's row, login, the history page
RunSplitBill ==
    /\ pc = "idle"
    /\ \E login \in {"none", "UrlError", "LoginError"} :
          /\ error' = login
          /\ IF login = "none"
             THEN pc' = "loop" /\ cycle_lags' \in CycleLags
             ELSE pc' = "idle" /\ cycle_lags' = <<>>
    /\ User' = UserGetOrCreate(User, account_holder.name, account_holder.number)
    /\ log' = {}
    /\ printed' = <<>>
    /\ notified' = <<>>
    /\ UNCHANGED <<ChargeCategory, ChargeType, BillingCycle, Charge, locals,
                   unverified>>

\* run: the bill of the next lag is opened and passes the sanity check
RunOpenBill ==
    /\ pc = "loop"
    /\ cycle_lags # <<>>
    /\ pc' = "split"
    /\ log' = {}
    /\ UNCHANGED <<db, error, cycle_lags, locals, unverified, reports>>

\* run: the sanity check does not find 'Account Details'
RunUrlError ==
    /\ pc = "loop"
    /\ cycle_lags # <<>>
    /\ Raise("UrlError")
    /\ log' = {}
    /\ UNCHANGED <<db, unverified, reports>>

\* run: all lags are done, the browser is closed
RunQuit ==
    /\ pc = "loop"
    /\ cycle_lags = <<>>
    /\ pc' = "idle"
    /\ log' = {}
    /\ UNCHANGED <<db, error, cycle_lags, locals, unverified, reports>>

\* split_previous_bill: the cycle of the bill has a row already
SplitAlreadyProcessed ==
    /\ pc = "split"
    /\ AlreadyProcessed(BillingCycle, Bills[Head(cycle_lags)])
    /\ Return
    /\ log' = {"already processed"}
    /\ UNCHANGED <<db, unverified, reports>>

\* a split that goes on to the charges without saving the cycle row
SplitWithoutCycle ==
    /\ pc = "split"
    /\ ~AlreadyProcessed(BillingCycle, Bills[Head(cycle_lags)])
    /\ billing_cycle' = Bills[Head(cycle_lags)]
    /\ pc' = "utv"
    /\ log' = {}
    /\ UNCHANGED <<db, error, cycle_lags, offset, w_act_m_disc, users, i,
                   wireless_total, page, unverified, reports>>

\* split_previous_bill: the cycle row is created
SplitCreateCycle ==
    /\ pc = "split"
    /\ ~AlreadyProcessed(BillingCycle, Bills[Head(cycle_lags)])
    /\ BillingCycle' = BillingCycle \cup {Bills[Head(cycle_lags)]}
    /\ billing_cycle' = Bills[Head(cycle_lags)]
    /\ pc' = "utv"
    /\ log' = {}
    /\ UNCHANGED <<User, ChargeCategory, ChargeType, Charge, error, cycle_lags,
                   offset, w_act_m_disc, users, i, wireless_total, page,
                   unverified, reports>>

Uverse(block, category, next) ==
    LET r == UverseSection(block, category, ChargeCategory, ChargeType, Charge,
                           billing_cycle)
    IN  /\ ChargeCategory' = r.ChargeCategory
        /\ ChargeType' = r.ChargeType
        /\ Charge' = r.Charge
        /\ log' = r.log
        /\ IF r.error # "none"
           THEN Raise(r.error)
           ELSE /\ pc' = next
                /\ page' = Append(page, block)
                /\ UNCHANGED <<error, cycle_lags, billing_cycle, offset,
                               w_act_m_disc, users, i, wireless_total>>
        /\ UNCHANGED <<User, BillingCycle, unverified, reports>>

\* split_previous_bill: the U-verse TV section
SplitUverseTV ==
    /\ pc = "utv"
    /\ \E block \in UverseBlocks(Head(cycle_lags), "utv") :
          Uverse(block, "utv", "uvi")

\* split_previous_bill: the U-verse Internet section
SplitUverseInternet ==
    /\ pc = "uvi"
    /\ \E block \in UverseBlocks(Head(cycle_lags), "uvi") :
          Uverse(block, "uvi", "holder")

\* a set of active users that starts empty
NoInitialUsers == {}

\* users = set([self.account_holder])
InitialUsers == {account_holder.number}

\* split_previous_bill: the wireless charges under the account holder
SplitHolder ==
    /\ pc = "holder"
    /\ \E block \in WirelessBlocks(Head(cycle_lags), 1) :
          LET r == HolderSection(block, ChargeCategory, ChargeType, Charge,
                                 billing_cycle)
          IN  /\ ChargeCategory' = r.ChargeCategory
              /\ ChargeType' = r.ChargeType
              /\ Charge' = r.Charge
              /\ log' = r.log
              /\ IF r.error # "none"
                 THEN Raise(r.error)
                 ELSE /\ pc' = "lines"
                      /\ page' = Append(page, block)
                      /\ offset' = r.offset
                      /\ w_act_m_disc' = r.w_act_m_disc
                      /\ users' = InitialUsers
                      /\ i' = 1
                      /\ UNCHANGED <<error, cycle_lags, billing_cycle,
                                     wireless_total>>
    /\ UNCHANGED <<User, BillingCycle, unverified, reports>>

\* where the loop over the phonebook goes after entry i
AfterLine == IF i = Len(phonebook) THEN "share" ELSE "lines"

\* split_previous_bill: the phonebook entry of the account holder is passed
SplitLineOfHolder ==
    /\ pc = "lines"
    /\ phonebook[i][2] = account_holder.number
    /\ pc' = AfterLine
    /\ i' = IF i = Len(phonebook) THEN i ELSE i + 1
    /\ log' = {}
    /\ UNCHANGED <<db, error, cycle_lags, billing_cycle, offset, w_act_m_disc,
                   users, wireless_total, page, unverified, reports>>

\* split_previous_bill: the wireless charges of an additional line
SplitLine ==
    /\ pc = "lines"
    /\ phonebook[i][2] # account_holder.number
    /\ \E block \in WirelessBlocks(Head(cycle_lags), i) :
          LET r == LineSection(block, phonebook[i][1], phonebook[i][2], User,
                               ChargeType, Charge, offset, users, billing_cycle)
          IN  /\ User' = r.User
              /\ ChargeType' = r.ChargeType
              /\ Charge' = r.Charge
              /\ log' = r.log
              /\ IF r.error # "none"
                 THEN Raise(r.error)
                 ELSE /\ pc' = AfterLine
                      /\ i' = IF i = Len(phonebook) THEN i ELSE i + 1
                      /\ page' = Append(page, block)
                      /\ users' = r.users
                      /\ UNCHANGED <<error, cycle_lags, billing_cycle, offset,
                                     w_act_m_disc, wireless_total>>
    /\ UNCHANGED <<ChargeCategory, BillingCycle, unverified, reports>>

\* split_previous_bill: the share of the account monthly charges of each user
SplitShare ==
    /\ pc = "share"
    /\ LET r == ShareSection(ChargeType, Charge, w_act_m_disc, users,
                             billing_cycle)
       IN  /\ ChargeType' = r.ChargeType
           /\ Charge' = r.Charge
           /\ log' = r.log
           /\ IF r.error # "none"
              THEN Raise(r.error)
              ELSE /\ pc' = "reconcile"
                   /\ wireless_total' = r.wireless_total
                   /\ UNCHANGED <<error, cycle_lags, billing_cycle, offset,
                                  w_act_m_disc, users, i, page>>
    /\ UNCHANGED <<User, ChargeCategory, BillingCycle, unverified, reports>>

\* amounts the bill may print as 'Total Wireless Charges': around the total
\* the split computed and around the sum of the wireless rows of the cycle
Tolerances == {-2 * Cent, -(Cent \div 2), Cent \div 2, Cent, 2 * Cent}

BillWirelessTotals ==
    {t + d : t \in {wireless_total,
                    SumAmount(CycleWireless(Charge, billing_cycle))},
             d \in Tolerances}

\* split_previous_bill: the 'Total Wireless Charges' of the bill is read and
\* the computed total is compared with it
SplitReconcile ==
    /\ pc = "reconcile"
    /\ \E t \in BillWirelessTotals :
          IF Reconcile(t, wireless_total) # "none"
          THEN /\ Raise(Reconcile(t, wireless_total))
               /\ unverified' = unverified \cup {billing_cycle}
               /\ log' = {}
          ELSE /\ Return
               /\ log' = {"verified"}
               /\ UNCHANGED unverified
    /\ UNCHANGED <<db, reports>>

\* ------------------------------------------------------------------------
\* print_wireless_monthly_details
\* ------------------------------------------------------------------------
RECURSIVE SetToSeq(_)
SetToSeq(S) ==
    IF S = {} THEN <<>>
    ELSE LET x == CHOOSE y \in S : TRUE
         IN  <<x>> \o SetToSeq(S \ {x})

\* the rows of the query for one user: one per charge type, with SUM(amount)
UserDetailRows(user, rows, cycle) ==
    LET mine == UserWireless(rows, user.number, cycle)
    IN  SetToSeq({[name |-> user.name, number |-> user.number,
                   charge_type |-> t.text,
                   total |-> SumAmount({r \in mine : r.charge_type = t})] :
                  t \in {r.charge_type : r \in mine}})

\* the rows of the query: grouped by user and charge type, ordered by User.id
RECURSIVE DetailRows(_, _, _, _)
DetailRows(urows, k, rows, cycle) ==
    IF k > Len(urows) THEN <<>>
    ELSE UserDetailRows(urows[k], rows, cycle) \o
         DetailRows(urows, k + 1, rows, cycle)

Line(kind, text, amount) == [kind |-> kind, text |-> text, amount |-> amount]

\* for user in query.execute()
RECURSIVE DetailsLoop(_, _, _)
DetailsLoop(rows, k, st) ==
    IF k > Len(rows) THEN st
    ELSE LET boundary == rows[k].number # st.current_user_num
             close == boundary /\ st.current_user_total # 0
             out1 == IF close
                     THEN Append(st.out, Line("total", <<"Total">>,
                                              st.current_user_total))
                     ELSE st.out
             out2 == IF boundary
                     THEN Append(out1, Line("user", <<rows[k].number>>, 0))
                     ELSE out1
             total0 == IF boundary THEN 0 ELSE st.current_user_total
         IN  DetailsLoop(rows, k + 1,
                 [current_user_num |-> rows[k].number,
                  current_user_total |-> total0 + rows[k].total,
                  wireless_total |-> IF close
                                     THEN st.wireless_total + st.current_user_total
                                     ELSE st.wireless_total,
                  out |-> Append(out2, Line("charge", rows[k].charge_type,
                                            rows[k].total))])

\* what print_wireless_monthly_details prints for an existing cycle
Details(urows, rows, cycle) ==
    LET st == DetailsLoop(DetailRows(urows, 1, rows, cycle), 1,
                          [current_user_num |-> "", current_user_total |-> 0,
                           wireless_total |-> 0, out |-> <<>>])
        out == IF st.current_user_total # 0
               THEN Append(st.out, Line("total", <<"Total">>,
                                        st.current_user_total))
               ELSE st.out
    IN  Append(out, Line("grand", <<"Wireless", "Total">>, st.wireless_total))

\* ------------------------------------------------------------------------
\* The cycle a report is asked for
\* ------------------------------------------------------------------------
\* (month, year) of BillingCycle.end_date, the date that ends the cycle's name
end_date(name) ==
    CASE name = "Aug 02 - Sep 01, 2016" -> <<9, 2016>>
      [] name = "Jul 02 - Aug 01, 2016" -> <<8, 2016>>

\* the (month, year) a report may be asked for: those the bills end in
Months == {end_date(Bills[k]) : k \in 1..Len(Bills)}

\* BillingCycle.select().where(month of end_date == month, year == year)
CyclesEnding(cycles, month) == {c \in cycles : end_date(c) = month}

\* a check that lets every month through
SummaryAlwaysFound(cycles, month) == FALSE

\* if not BillingCycle.select().where(...).exists()
NoSummaryFound(cycles, month) == CyclesEnding(cycles, month) = {}

\* print('No charge summary found for {}/{}. Please split the bill first')
NoData == <<Line("nodata", <<"No", "charge", "summary", "found">>, 0)>>

\* BillingCycle.select().where(...).get() on no row
DoesNotExist == <<Line("error", <<"DoesNotExist">>, 0)>>

\* ------------------------------------------------------------------------
\* print_wireless_monthly_summary
\* ------------------------------------------------------------------------
\* the rows of User joined with MonthlyBill for a cycle: a user's total of
\* wireless charges, for the users that have wireless charges in the cycle
RECURSIVE MonthlyBill(_, _, _, _)
MonthlyBill(urows, k, rows, cycle) ==
    IF k > Len(urows) THEN <<>>
    ELSE LET mine == UserWireless(rows, urows[k].number, cycle)
         IN  (IF mine = {} THEN <<>>
              ELSE <<[name |-> urows[k].name, number |-> urows[k].number,
                      total |-> SumAmount(mine)]>>)
             \o MonthlyBill(urows, k + 1, rows, cycle)

\* for user in query.execute()
RECURSIVE SummaryLoop(_, _, _)
SummaryLoop(rows, k, st) ==
    IF k > Len(rows) THEN st
    ELSE SummaryLoop(rows, k + 1,
             [wireless_total |-> st.wireless_total + rows[k].total,
              out |-> Append(st.out, Line("user", <<rows[k].number>>,
                                          rows[k].total))])

\* what print_wireless_monthly_summary prints for an existing cycle
Summary(urows, rows, cycle) ==
    LET st == SummaryLoop(MonthlyBill(urows, 1, rows, cycle), 1,
                          [wireless_total |-> 0, out |-> <<>>])
    IN  Append(st.out, Line("grand", <<"Wireless", "Total">>, st.wireless_total))

\* ------------------------------------------------------------------------
\* The print commands
\* ------------------------------------------------------------------------
\* what a print command asked for (month, year) puts out
Report(report, month, cycles, urows, rows) ==
    LET found == CyclesEnding(cycles, month)
        bc == CHOOSE c \in found : TRUE
    IN  IF NoSummaryFound(cycles, month)
        THEN [report |-> report, month |-> month, cycle |-> "", out |-> NoData]
        ELSE IF found = {}
        THEN [report |-> report, month |-> month, cycle |-> "",
              out |-> DoesNotExist]
        ELSE [report |-> report, month |-> month, cycle |-> bc,
              out |-> IF report = "details"
                      THEN Details(urows, rows, bc)
                      ELSE Summary(urows, rows, bc)]

\* run_print_summary
PrintSummary ==
    /\ pc = "idle"
    /\ \E month \in Months :
          printed' = <<Report("summary", month, BillingCycle, User, Charge)>>
    /\ notified' = <<>>
    /\ UNCHANGED <<db, pc, error, log, cycle_lags, locals, unverified>>

\* run_print_details
PrintDetails ==
    /\ pc = "idle"
    /\ \E month \in Months :
          printed' = <<Report("details", month, BillingCycle, User, Charge)>>
    /\ notified' = <<>>
    /\ UNCHANGED <<db, pc, error, log, cycle_lags, locals, unverified>>

\* ------------------------------------------------------------------------
\* notify_users_monthly_details
\* ------------------------------------------------------------------------
\* for user in query.execute()
RECURSIVE NotifyLoop(_, _, _)
NotifyLoop(rows, k, st) ==
    IF k > Len(rows) THEN st
    ELSE LET boundary == rows[k].number # st.current_user_num
             close == boundary /\ st.current_user_total # 0
             closed == Append(st.message, Line("total", <<"Total">>,
                                               st.current_user_total))
             message0 == IF boundary
                         THEN <<Line("user", <<rows[k].number>>, 0)>>
                         ELSE st.message
             total0 == IF boundary THEN 0 ELSE st.current_user_total
         IN  NotifyLoop(rows, k + 1,
                 [current_user_num |-> rows[k].number,
                  current_user_total |-> total0 + rows[k].total,
                  messages |-> IF close
                               THEN (st.current_user_num :> closed) @@ st.messages
                               ELSE st.messages,
                  message |-> Append(message0,
                                     Line("charge", rows[k].charge_type,
                                          rows[k].total))])

\* the mapping messages as the loop over the query leaves it
Messages(urows, rows, cycle) ==
    NotifyLoop(DetailRows(urows, 1, rows, cycle), 1,
               [current_user_num |-> "-1", current_user_total |-> 0,
                messages |-> <<>>, message |-> <<>>]).messages

\* what notify_users_monthly_details shows and sends when the operator says
\* yes for the numbers in yes
Notification(month, cycle, messages, yes) ==
    [month |-> month, cycle |-> cycle, messages |-> messages,
     presented |-> DOMAIN messages, sent |-> yes \cap DOMAIN messages]

\* run_notify_users: the messages, then the confirmation of each by the operator
NotifyUsers ==
    /\ pc = "idle"
    /\ \E month \in Months :
          IF NoSummaryFound(BillingCycle, month)
          THEN /\ printed' = <<[report |-> "notify", month |-> month,
                                cycle |-> "", out |-> NoData]>>
               /\ notified' = <<>>
          ELSE IF CyclesEnding(BillingCycle, month) = {}
          THEN /\ printed' = <<[report |-> "notify", month |-> month,
                                cycle |-> "", out |-> DoesNotExist]>>
               /\ notified' = <<>>
          ELSE LET bc == CHOOSE c \in CyclesEnding(BillingCycle, month) : TRUE
                   messages == Messages(User, Charge, bc)
               IN  /\ printed' = <<>>
                   /\ \E yes \in SUBSET DOMAIN messages :
                         notified' = <<Notification(month, bc, messages, yes)>>
    /\ UNCHANGED <<db, pc, error, log, cycle_lags, locals, unverified>>

\* ------------------------------------------------------------------------
\* Specification
\* ------------------------------------------------------------------------
Next ==
    \/ RunSplitBill
    \/ RunOpenBill
    \/ RunUrlError
    \/ RunQuit
    \/ SplitAlreadyProcessed
    \/ SplitCreateCycle
    \/ SplitUverseTV
    \/ SplitUverseInternet
    \/ SplitHolder
    \/ SplitLineOfHolder
    \/ SplitLine
    \/ SplitShare
    \/ SplitReconcile
    \/ PrintDetails

Spec == Init /\ [][Next]_vars

\* the runs that split the latest bill only
LatestBill == {lags \in CycleLags : \A k \in 1..Len(lags) : lags[k] = 1}

\* the runs on the latest bill, and the three report commands between them
ReportNext ==
    \/ RunSplitBill /\ cycle_lags' \in LatestBill
    \/ RunOpenBill
    \/ RunUrlError
    \/ RunQuit
    \/ SplitAlreadyProcessed
    \/ SplitCreateCycle
    \/ SplitUverseTV
    \/ SplitUverseInternet
    \/ SplitHolder
    \/ SplitLineOfHolder
    \/ SplitLine
    \/ SplitShare
    \/ SplitReconcile
    \/ PrintSummary
    \/ PrintDetails
    \/ NotifyUsers

ReportSpec == Init /\ [][ReportNext]_vars

\* ------------------------------------------------------------------------
\* Properties
\* ------------------------------------------------------------------------
\* the rows of one cycle
RowsOf(rows, cycle) == {r \in rows : r.billing_cycle = cycle}

\* the 'Account Monthly Charges Share' rows of one cycle
ShareRows(rows, cycle) ==
    {r \in rows : r.billing_cycle = cycle /\ r.charge_type = ShareType}

\* the block the browser gave for phonebook entry j in the split under way
PageOfLine(j) == page[2 + j]

LineRead(j) == Len(page) >= 2 + j

SomePositive(block) == \E k \in 1..Len(block.elems) : block.elems[k].total > 0

AllZero(block) ==
    /\ block.elems # <<>>
    /\ \A k \in 1..Len(block.elems) : block.elems[k].total = 0

AdditionalLines == {j \in 1..Len(phonebook) : phonebook[j][2] # account_holder.number}

\* C1: a split for a cycle name that already has a BillingCycle row changes
\* no table and returns to run without an exception
C1_RerunWritesNothing ==
    [][(pc = "split" /\ Bills[Head(cycle_lags)] \in BillingCycle)
         => /\ db' = db
            /\ pc' = "loop"
            /\ error' = "none"
            /\ log' = {"already processed"}]_vars

C1_Witness ==
    /\ log = {"already processed"}
    /\ pc = "loop"
    /\ Charge # {}

ChargeUnique ==
    \A r1, r2 \in Charge : SameTriple(r1, r2) => r1 = r2

\* the category and the user of the block read last
LastCategory ==
    CASE Len(page) = 1 -> "utv"
      [] Len(page) = 2 -> "uvi"
      [] OTHER -> "wireless"

LastUser ==
    IF Len(page) <= 3 THEN account_holder.number
    ELSE phonebook[Len(page) - 2][2]

DuplicateStep ==
    "duplicate charge" \in log'
        => /\ Charge \subseteq Charge'
           /\ error' # "IntegrityError"
           /\ error' = "none" =>
                 /\ pc' \in {"uvi", "holder", "lines", "share", "reconcile"}
                 /\ \A k \in 1..Len(page'[Len(page')].elems) :
                       \E r \in Charge' :
                          /\ r.user = LastUser'
                          /\ r.billing_cycle = billing_cycle'
                          /\ r.charge_type =
                                TypeRow(charge_type_text(
                                            page'[Len(page')].elems[k].label),
                                        LastCategory')

C3_ShareAllocation ==
    pc = "reconcile" =>
        LET shares == ShareRows(Charge, billing_cycle)
            N == Cardinality(users)
        IN  /\ N >= 1
            /\ {r.user : r \in shares} = users
            /\ Cardinality(shares) = N
            /\ \A r \in shares : r.amount * N = w_act_m - w_act_m_disc[1]
            /\ SumAmount(shares) = w_act_m - w_act_m_disc[1]

C3_Witness ==
    /\ pc = "reconcile"
    /\ Cardinality(users) = 3
    /\ Cardinality(ShareRows(Charge, billing_cycle)) = 3

C4_Scenario ==
    /\ pc = "reconcile"
    /\ w_act_m_disc = <<20 * Dollar>>
    /\ SomePositive(PageOfLine(1))
    /\ Cardinality(AdditionalLines) = 2
    /\ \E z, p \in AdditionalLines :
          /\ z # p
          /\ AllZero(PageOfLine(z))
          /\ SomePositive(PageOfLine(p))

\* C4: fee 130, discount 20, the holder with wireless charges, one additional
\* line with all charges zero and one with a positive charge: two active
\* lines, each share 55.00, the shares summing to 110.00, in whatever order
\* the line items of the blocks come
C4_EndToEnd ==
    C4_Scenario =>
        LET shares == ShareRows(Charge, billing_cycle)
        IN  /\ Cardinality(users) = 2
            /\ Cardinality(shares) = 2
            /\ \A r \in shares : r.amount = 55 * Dollar
            /\ SumAmount(shares) = 110 * Dollar

\* C5: at the reconciliation, for every total the bill may print,
\* CalculationError is raised exactly when that total differs by more than
\* 0.01 from the sum of all wireless rows persisted for the cycle
C5_ReconcileAllWireless ==
    pc = "reconcile" =>
        \A t \in BillWirelessTotals :
            (Reconcile(t, wireless_total) = "CalculationError")
                <=> (Abs(t - SumAmount(CycleWireless(Charge, billing_cycle)))
                        > Cent)

\* C6: an additional line is counted as active, and gets a share row, exactly
\* when at least one of its wireless line items has a positive total
C6_ActiveIffPositive ==
    pc \in {"lines", "share", "reconcile"} =>
        \A j \in AdditionalLines :
            LineRead(j) =>
                /\ phonebook[j][2] \in users <=> SomePositive(PageOfLine(j))
                /\ pc = "reconcile" =>
                      ((\E r \in ShareRows(Charge, billing_cycle) :
                            r.user = phonebook[j][2])
                          <=> SomePositive(PageOfLine(j)))

\* the block a row of the split under way was extracted from
BlockOfRow(r) ==
    CASE r.charge_type.charge_category = "utv" -> page[1]
      [] r.charge_type.charge_category = "uvi" -> page[2]
      [] OTHER ->
           PageOfLine(CHOOSE j \in 1..Len(phonebook) : phonebook[j][2] = r.user)

HolderMonthly(r) ==
    /\ r.user = account_holder.number
    /\ r.charge_type = TypeRow(MonthlyCharges, "wireless")

\* C7: of the rows a split writes from line items, only the holder's wireless
\* 'Monthly Charges' row has the offset 130 - discount subtracted; every
\* other row holds the amount extracted from its line item
C7_OffsetOnlyOnHolderMonthly ==
    \A r \in RowsOf(Charge, billing_cycle) :
        r.charge_type # ShareType =>
            \E k \in 1..Len(BlockOfRow(r).elems) :
                LET elem == BlockOfRow(r).elems[k]
                IN  /\ r.charge_type =
                          TypeRow(charge_type_text(elem.label),
                                  r.charge_type.charge_category)
                    /\ r.amount =
                          IF HolderMonthly(r)
                          THEN elem.total - (w_act_m - w_act_m_disc[1])
                          ELSE elem.total

ParsingErrorStep ==
    (pc \in {"holder", "lines"} /\ error = "none" /\ error' = "ParsingError")
        => /\ pc' = "idle"
           /\ db' = db
           /\ unverified' = unverified
           /\ "verified" \notin log'
           /\ ShareRows(Charge', billing_cycle) = {}
           /\ \A j \in AdditionalLines :
                 j >= i => \A r \in RowsOf(Charge', billing_cycle) :
                              r.user # phonebook[j][2]

\* C8: a split goes on only while every wireless block asked for was located;
\* the ParsingError that ends it writes nothing, and leaves the cycle without
\* share rows, without reconciliation and without rows of the failing line
\* and of the lines after it
C8_ParsingErrorAborts ==
    /\ [](pc \in {"lines", "share", "reconcile"} =>
             \A k \in 3..Len(page) : page[k].found)
    /\ [][ParsingErrorStep]_vars

C8_Witness ==
    /\ pc = "idle"
    /\ error = "ParsingError"
    /\ \E c \in BillingCycle :
          /\ \E r \in RowsOf(Charge, c) : r.user = phonebook[2][2]
          /\ ShareRows(Charge, c) = {}

UnverifiedStep ==
    /\ \A c \in unverified' :
          /\ c \in BillingCycle'
          /\ RowsOf(Charge', c) = RowsOf(Charge, c)
          /\ RowsOf(Charge', c) # {}
    /\ (pc = "split" /\ Bills[Head(cycle_lags)] \in unverified)
          => (db' = db /\ pc' = "loop")

\* C9: once the reconciliation of a cycle has raised CalculationError, the
\* cycle's BillingCycle row and Charge rows stay as they are in every later
\* step, and a later split for that cycle name is turned away by the guard
\* and writes nothing
C9_UnverifiedStays ==
    [][UnverifiedStep]_vars

C9_Witness ==
    /\ log = {"already processed"}
    /\ pc = "loop"
    /\ unverified = BillingCycle
    /\ Charge # {}

RECURSIVE SumLines(_, _)
SumLines(out, kind) ==
    IF out = <<>> THEN 0
    ELSE (IF Head(out).kind = kind THEN Head(out).amount ELSE 0)
         + SumLines(Tail(out), kind)

\* C10: the report's 'Wireless Total' is the sum of the subtotals printed for
\* the users, the last one included, which is the sum of the wireless rows
\* of the cycle
C10_GrandTotal ==
    (printed # <<>> /\ printed[1].report = "details" /\ printed[1].cycle # "") =>
        LET out == printed[1].out
        IN  /\ out[Len(out)].amount = SumLines(out, "total")
            /\ out[Len(out)].amount =
                  SumAmount(CycleWireless(Charge, printed[1].cycle))

\* the numbers of the users that have wireless rows in a cycle
WirelessUsers(rows, cycle) == {r.user : r \in CycleWireless(rows, cycle)}

\* the charge lines of a message body
ChargeLines(msg) == {msg[k] : k \in {n \in 1..Len(msg) : msg[n].kind = "charge"}}

\* C11: the mapping notify_users_monthly_details builds has exactly one entry
\* for every user with wireless rows in the cycle, keyed by the user's number,
\* listing the user's charge types and ending with the user's total, and every
\* such user, the last in id order included, is shown for confirmation
C11_NotifyEveryUser ==
    notified # <<>> =>
        LET n == notified[1]
        IN  /\ DOMAIN n.messages = WirelessUsers(Charge, n.cycle)
            /\ n.presented = WirelessUsers(Charge, n.cycle)
            /\ \A num \in DOMAIN n.messages :
                  LET msg == n.messages[num]
                      mine == UserWireless(Charge, num, n.cycle)
                  IN  /\ msg[Len(msg)] =
                            Line("total", <<"Total">>, SumAmount(mine))
                      /\ {l.text : l \in ChargeLines(msg)} =
                            {r.charge_type.text : r \in mine}

NoDataPrinted ==
    (printed # <<>> /\ CyclesEnding(BillingCycle, printed[1].month) = {})
        => /\ printed[1].cycle = ""
           /\ printed[1].out = NoData

PrintStep ==
    (printed' # <<>> /\ printed' # printed)
        => /\ db' = db
           /\ pc' = pc
           /\ error' = error
           /\ notified' = <<>>

\* C12: a print command for a (month, year) in which no BillingCycle ends
\* prints the no-data message and nothing else, no line of a user and no
\* total, writes nothing and returns without an exception
C12_NoDataNoQuery ==
    /\ []NoDataPrinted
    /\ [][PrintStep]_vars

C12_Witness ==
    /\ printed # <<>>
    /\ printed[1].report = "summary"
    /\ printed[1].out = NoData
    /\ BillingCycle # {}
    /\ Charge # {}


\* the block holds no 'National Account Discount' amount
NoDiscount(block) ==
    \A k \in 1..Len(block.elems) :
        ~(/\ startswithMonthlyCharges(block.elems[k].label)
          /\ block.elems[k].discount # <<>>)

\* the 'Monthly Charges' totals a holder's block may show
MonthlyTotals ==
    {e.total : e \in {x \in HolderElems : startswithMonthlyCharges(x.label)}}

\* no row computed as if the discount were zero
NoZeroDiscountRows(rows) ==
    \A r \in rows :
        /\ r.charge_type = ShareType =>
              \A n \in 1..Len(phonebook) : r.amount * n # w_act_m
        /\ HolderMonthly(r) =>
              \A t \in MonthlyTotals : r.amount # t - w_act_m

DiscountUnset ==
    /\ NoZeroDiscountRows(Charge)
    /\ (pc \in {"lines", "share", "reconcile"} /\ NoDiscount(page[3]))
          => /\ pc # "reconcile"
             /\ w_act_m_disc = <<>>
             /\ ShareRows(Charge, billing_cycle) = {}
             /\ \A r \in RowsOf(Charge, billing_cycle) : ~HolderMonthly(r)

DiscountUnsetStep ==
    (pc \in {"lines", "share"} /\ NoDiscount(page[3])
        /\ pc' \notin {"lines", "share"})
        => /\ pc' = "idle"
           /\ error' \in {"UnboundLocalError", "ParsingError"}
           /\ ShareRows(Charge', billing_cycle) = {}

CurrentCycle == Bills[Head(cycle_lags)]

\* the cycles of the lags the run has still to go to after the current one
LaterCycles == {Bills[Tail(cycle_lags)[k]] : k \in 1..Len(cycle_lags) - 1}

SequentialStep ==
    pc # "idle" =>
        /\ cycle_lags' \in {cycle_lags, <<>>} \cup
              (IF cycle_lags # <<>> THEN {Tail(cycle_lags)} ELSE {})
        /\ Charge \subseteq Charge'
        /\ BillingCycle \subseteq BillingCycle'
        /\ (Charge' # Charge \/ BillingCycle' # BillingCycle) =>
              /\ \A r \in Charge' \ Charge : r.billing_cycle = CurrentCycle
              /\ BillingCycle' \ BillingCycle \subseteq {CurrentCycle}
              /\ billing_cycle' \in {CurrentCycle, ""}

FatalStep ==
    (pc # "idle" /\ error' # "none")
        => /\ pc' = "idle"
           /\ cycle_lags' = <<>>
           /\ BillingCycle' = BillingCycle
           /\ \A c \in LaterCycles : RowsOf(Charge', c) = RowsOf(Charge, c)

\* C14: run goes through the cycle lags one at a time in the given order,
\* writing only for the cycle it is at; a fatal error ends the run there, with
\* the later lags dropped and nothing written for them, and every row written
\* before stays
C14_SequentialAbort ==
    /\ [](pc = "idle" => cycle_lags = <<>>)
    /\ [][SequentialStep]_vars
    /\ [][FatalStep]_vars

C14_Witness ==
    /\ pc = "idle"
    /\ error = "CalculationError"
    /\ unverified = {Bills[1]}
    /\ RowsOf(Charge, Bills[1]) # {}
    /\ ShareRows(Charge, Bills[2]) # {}


NonWireless(r) == r.charge_type.charge_category \in {"utv", "uvi"}

UverseStep ==
    pc \in {"utv", "uvi"} =>
        /\ error' = "none"
        /\ pc' = (IF pc = "utv" THEN "uvi" ELSE "holder")
        /\ \A r \in Charge' \ Charge :
              NonWireless(r) /\ r.user = account_holder.number
        /\ page'[Len(page')].elems = <<>> => Charge' = Charge

\* C15: every row of a non-wireless category (utv, uvi) belongs to the
\* account holder; a non-wireless category with no charge elements writes no
\* row and raises nothing, and the split goes on with the next category and
\* with wireless
C15_NonWirelessToHolder ==
    /\ [](\A r \in Charge : NonWireless(r) => r.user = account_holder.number)
    /\ [][UverseStep]_vars

C15_Witness ==
    /\ pc = "reconcile"
    /\ ~page[1].found
    /\ page[2] = Found(<<>>)
    /\ \A r \in RowsOf(Charge, billing_cycle) : ~NonWireless(r)
    /\ \E r \in Charge : NonWireless(r)
    /\ Cardinality(ShareRows(Charge, billing_cycle)) = 2


\* C16: every Charge row names a cycle that has a BillingCycle row, also
\* after a split that failed midway: the row of the cycle is there before the
\* first Charge of the cycle is written, so the guard turns away a later
\* split of a cycle that has any Charge
C16_ChargeHasCycle ==
    /\ \A r \in Charge :
          /\ r.billing_cycle \in BillingCycle
          /\ AlreadyProcessed(BillingCycle, r.billing_cycle)
    /\ pc \in {"utv", "uvi", "holder", "lines", "share", "reconcile"} =>
          billing_cycle \in BillingCycle

C16_Witness ==
    /\ pc = "idle"
    /\ error = "ParsingError"
    /\ BillingCycle = {Bills[1]}
    /\ RowsOf(Charge, Bills[1]) # {}
    /\ \A r \in Charge : r.user = account_holder.number


\* the holder's own wireless rows of a cycle: all but the share
HolderOwn(rows, cycle) ==
    {r \in UserWireless(rows, account_holder.number, cycle) :
        r.charge_type # ShareType}

HolderEntryStep ==
    (pc = "lines" /\ phonebook[i][2] = account_holder.number)
        => /\ db' = db
           /\ page' = page
           /\ users' = users
           /\ error' = "none"

\* C17: the account holder is in the set of active users from its start, so
\* the share is never computed over zero users and the holder has a share row
\* also when the holder's own wireless charges are zero or negative; the
\* phonebook entry with the holder's number is passed over, not processed as
\* an additional line
C17_HolderAlwaysActive ==
    /\ [](/\ error # "ZeroDivisionError"
          /\ pc \in {"lines", "share", "reconcile"} =>
                /\ account_holder.number \in users
                /\ Cardinality(users) >= 1
          /\ pc = "reconcile" =>
                /\ \E r \in ShareRows(Charge, billing_cycle) :
                      r.user = account_holder.number
                /\ Len(page) = 2 + Len(phonebook))
    /\ [][HolderEntryStep]_vars

C17_Witness ==
    /\ pc = "reconcile"
    /\ SumAmount(HolderOwn(Charge, billing_cycle)) <= 0
    /\ \E r \in ShareRows(Charge, billing_cycle) :
          r.user = account_holder.number


====
